---- MODULE Spec2Model ----
(***************************************************************************)
(* Model of the IGP earthquake scraper (handlers/scrape_earthquakes.py)   *)
(* and of the read handler (handlers/get_earthquakes.py).                 *)
(*                                                                         *)
(* Texts are TLA+ strings handled character by character; the regular     *)
(* expressions of the source are sequences of quantified character        *)
(* classes run by a leftmost, greedy, backtracking matcher, as Python's   *)
(* re.search runs them.  A float is the pair [m, e] standing for m/10^e   *)
(* with trailing zeros removed.  md5 is modelled as an injective tagging  *)
(* of its input.  A cell is modelled by the text get_text(strip=True)     *)
(* returns for it; a document is the sequence of its tables, a table the  *)
(* sequence of its rows, a row the sequence of its cells.                 *)
(***************************************************************************)
EXTENDS Integers, Sequences, FiniteSets, TLC

VARIABLES
    clock,      \* wall clock, in seconds
    doc,        \* the page the fetch returns
    store,      \* the DynamoDB table: a set of items, at most one per id
    inv,        \* inv[p]: the state of invocation p of the write handler
    texts,      \* the cell texts handed to the parsers
    parsed,     \* what the parsers returned for texts
    items,      \* what table.scan() returns to the read handler
    limit,      \* the 'limit' query parameter: <<>> when absent, <<s>> when s
    resp        \* the read handler's response

vars == <<clock, doc, store, inv, texts, parsed, items, limit, resp>>

---------------------------------------------------------------------------
(* Bounds of the model *)

\* the clock runs from 0 to MaxClock
MaxClock == 2

\* complete rows in a page of one invocation
MaxRows == 15

\* complete rows per table, in the pages of two invocations
MaxRowsTwo == 1

\* put_item calls that may fail in one invocation
MaxFailures == 2

\* items a scan returns
MaxScan == 12

---------------------------------------------------------------------------
(* Characters and strings *)

Ch(s, i) == SubSeq(s, i, i)

Digit == {"0", "1", "2", "3", "4", "5", "6", "7", "8", "9"}

DigitString == "0123456789"

LowerLetters == "abcdefghijklmnopqrstuvwxyzó"

UpperLetters == "ABCDEFGHIJKLMNOPQRSTUVWXYZÓ"

Whitespace == {" ", "\t"}

RECURSIVE IndexFrom(_, _, _)
IndexFrom(alphabet, c, i) ==
    IF i > Len(alphabet) THEN 0
    ELSE IF Ch(alphabet, i) = c THEN i
    ELSE IndexFrom(alphabet, c, i + 1)

\* the first place of c in alphabet, 0 when it is not there
IndexIn(alphabet, c) == IndexFrom(alphabet, c, 1)

\* str.upper and str.lower, character by character
ToUpper == [i \in 1..Len(LowerLetters) |-> Ch(UpperLetters, i)]

ToLower == [i \in 1..Len(UpperLetters) |-> Ch(LowerLetters, i)]

LowerSet == {Ch(LowerLetters, i) : i \in 1..Len(LowerLetters)}

UpperSet == {Ch(UpperLetters, i) : i \in 1..Len(UpperLetters)}

UpperCh(c) == IF c \in LowerSet THEN ToUpper[IndexIn(LowerLetters, c)] ELSE c

LowerCh(c) == IF c \in UpperSet THEN ToLower[IndexIn(UpperLetters, c)] ELSE c

RECURSIVE UpperStr(_)
UpperStr(s) ==
    IF s = "" THEN "" ELSE UpperCh(Ch(s, 1)) \o UpperStr(SubSeq(s, 2, Len(s)))

RECURSIVE LowerStr(_)
LowerStr(s) ==
    IF s = "" THEN "" ELSE LowerCh(Ch(s, 1)) \o LowerStr(SubSeq(s, 2, Len(s)))

Contains(s, sub) ==
    \E i \in 1..(Len(s) - Len(sub) + 1) : SubSeq(s, i, i + Len(sub) - 1) = sub

DigitVal(c) == IndexIn(DigitString, c) - 1

RECURSIVE NatOf(_)
NatOf(s) ==
    IF s = "" THEN 0
    ELSE 10 * NatOf(SubSeq(s, 1, Len(s) - 1)) + DigitVal(Ch(s, Len(s)))

RECURSIVE NatStr(_)
NatStr(n) ==
    IF n < 10 THEN Ch(DigitString, n + 1)
    ELSE NatStr(n \div 10) \o Ch(DigitString, (n % 10) + 1)

RECURSIVE ZeroPad(_, _)
ZeroPad(s, width) == IF Len(s) >= width THEN s ELSE ZeroPad("0" \o s, width)

Min(a, b) == IF a <= b THEN a ELSE b

---------------------------------------------------------------------------
(* Regular expressions: a pattern is a sequence of atoms, an atom a        *)
(* character class with a repetition range (max < 0: no upper limit).      *)

One(cls) == [cls |-> cls, min |-> 1, max |-> 1]

Opt(cls) == [cls |-> cls, min |-> 0, max |-> 1]

Star(cls) == [cls |-> cls, min |-> 0, max |-> -1]

Plus(cls) == [cls |-> cls, min |-> 1, max |-> -1]

Rep(cls, lo, hi) == [cls |-> cls, min |-> lo, max |-> hi]

\* re.IGNORECASE on a literal character
CI(c) == {c, UpperCh(c), LowerCh(c)}

Word(w) == [i \in 1..Len(w) |-> One(CI(Ch(w, i)))]

RECURSIVE RunLen(_, _, _)
RunLen(cls, s, i) ==
    IF i <= Len(s) /\ Ch(s, i) \in cls THEN 1 + RunLen(cls, s, i + 1) ELSE 0

RECURSIVE MatchFrom(_, _, _, _, _)
RECURSIVE TryCount(_, _, _, _, _, _)

\* The match of atoms k.. of re at position i of s: the start of each atom
\* and the end of the match, or <<>> when there is none.  With full, the
\* match must end where s ends.
MatchFrom(re, k, s, i, full) ==
    IF k > Len(re) THEN (IF full /\ i # Len(s) + 1 THEN <<>> ELSE <<i>>)
    ELSE LET run == RunLen(re[k].cls, s, i)
             c   == IF re[k].max < 0 THEN run ELSE Min(run, re[k].max)
         IN  TryCount(re, k, s, i, c, full)

\* greedy: the longest repetition first, then shorter ones
TryCount(re, k, s, i, c, full) ==
    IF c < re[k].min THEN <<>>
    ELSE LET rest == MatchFrom(re, k + 1, s, i + c, full)
         IN  IF rest # <<>> THEN <<i>> \o rest
             ELSE TryCount(re, k, s, i, c - 1, full)

RECURSIVE SearchFrom(_, _, _)
SearchFrom(re, s, i) ==
    IF i > Len(s) + 1 THEN <<>>
    ELSE LET m == MatchFrom(re, 1, s, i, FALSE)
         IN  IF m # <<>> THEN m ELSE SearchFrom(re, s, i + 1)

\* re.search(re, s)
Search(re, s) == SearchFrom(re, s, 1)

\* a match of the whole of s, as strptime's compiled format requires
FullMatch(re, s) == MatchFrom(re, 1, s, 1, TRUE)

\* the text matched by atoms a..b of a match m
Group(s, m, a, b) == SubSeq(s, m[a], m[b + 1] - 1)

\* match.group(0)
Group0(s, m) == SubSeq(s, m[1], m[Len(m)] - 1)

---------------------------------------------------------------------------
(* Floats *)

RECURSIVE Normalize(_, _)
Normalize(m, e) ==
    IF e > 0 /\ m % 10 = 0 THEN Normalize(m \div 10, e - 1) ELSE [m |-> m, e |-> e]

Zero == [m |-> 0, e |-> 0]

Neg(f) == [f EXCEPT !.m = -f.m]

RECURSIVE CountCh(_, _)
CountCh(s, c) ==
    IF s = "" THEN 0
    ELSE (IF Ch(s, 1) = c THEN 1 ELSE 0) + CountCh(SubSeq(s, 2, Len(s)), c)

RECURSIVE Without(_, _)
Without(s, c) ==
    IF s = "" THEN ""
    ELSE (IF Ch(s, 1) = c THEN "" ELSE Ch(s, 1)) \o Without(SubSeq(s, 2, Len(s)), c)

\* float(s) for s over digits and dots: <<value>>, or <<>> when it raises
ToFloat(s) ==
    LET dots   == CountCh(s, ".")
        digits == Without(s, ".")
        dot    == IndexIn(s, ".")
        frac   == IF dots = 0 THEN 0 ELSE Len(s) - dot
    IN  IF dots > 1 \/ digits = "" THEN <<>>
        ELSE <<Normalize(NatOf(digits), frac)>>

RECURSIVE Pow10(_)
Pow10(e) == IF e = 0 THEN 1 ELSE 10 * Pow10(e - 1)

\* str(f) of a non-negative float, as an f-string formats it
FloatStr(f) ==
    IF f.e = 0 THEN NatStr(f.m) \o ".0"
    ELSE NatStr(f.m \div Pow10(f.e)) \o "." \o ZeroPad(NatStr(f.m % Pow10(f.e)), f.e)

---------------------------------------------------------------------------
(* The clock *)

\* datetime.now().strftime('%d/%m/%Y %H:%M:%S')
NowStr(now) == "01/01/2026 00:00:" \o ZeroPad(NatStr(now), 2)

\* datetime.utcnow().isoformat()
UtcNowIso(now) == "2026-01-01T00:00:" \o ZeroPad(NatStr(now), 2) \o ".500000"

---------------------------------------------------------------------------
(* EarthquakeScraper: the field parsers *)

D12 == Rep(Digit, 1, 2)

D2 == Rep(Digit, 2, 2)

D4 == Rep(Digit, 4, 4)

Lit(c) == One({c})

\* find_datetime's patterns, in its order
DatePatterns == <<
    <<D12, Lit("/"), D12, Lit("/"), D4, Lit(" "), D12, Lit(":"), D2, Lit(":"), D2>>,
    <<D4, Lit("-"), D12, Lit("-"), D12, Lit(" "), D12, Lit(":"), D2, Lit(":"), D2>>,
    <<D12, Lit("-"), D12, Lit("-"), D4, Lit(" "), D12, Lit(":"), D2, Lit(":"), D2>>,
    <<D12, Lit("/"), D12, Lit("/"), D4, Lit(" "), D12, Lit(":"), D2>> >>

\* The first match over the texts, text by text and, within a text, pattern
\* by pattern: <<match.group(0)>>, or <<>> when nothing matches.
RECURSIVE DateScan(_, _, _)
DateScan(ts, t, p) ==
    IF t > Len(ts) THEN <<>>
    ELSE IF p > Len(DatePatterns) THEN DateScan(ts, t + 1, 1)
    ELSE LET m == Search(DatePatterns[p], ts[t])
         IN  IF m # <<>> THEN <<Group0(ts[t], m)>> ELSE DateScan(ts, t, p + 1)

find_datetime(ts, now) ==
    LET found == DateScan(ts, 1, 1)
    IN  IF found # <<>> THEN found[1] ELSE NowStr(now)

NumChars == Digit \cup {"."}

\* find_magnitude's patterns, in its order, each with the atoms of group 1
MagnitudePatterns == <<
    [re |-> <<Plus(NumChars), Star(Whitespace), One(CI("m"))>>, from |-> 1, to |-> 1],
    [re |-> <<One(CI("m")), Star(Whitespace), Plus(NumChars)>>, from |-> 3, to |-> 3],
    [re |-> Word("magnitud") \o <<Star(Whitespace), Plus(NumChars)>>, from |-> 10, to |-> 10],
    [re |-> <<Plus(Digit), Lit("."), Plus(Digit)>>, from |-> 1, to |-> 3] >>

\* find_depth's patterns, in its order
DepthPatterns == <<
    [re |-> <<Plus(Digit), Star(Whitespace)>> \o Word("km"), from |-> 1, to |-> 1],
    [re |-> Word("profundidad") \o <<Star(Whitespace), Plus(Digit)>>, from |-> 13, to |-> 13],
    [re |-> <<Plus(Digit), Star(Whitespace)>> \o Word("kilómetros"), from |-> 1, to |-> 1] >>

\* The loop shared by find_magnitude and find_depth: text by text and,
\* within a text, pattern by pattern; the first group 1 that float() accepts
\* is returned, a group it rejects moves on to the next pattern.
RECURSIVE NumberScan(_, _, _, _)
NumberScan(pats, ts, t, p) ==
    IF t > Len(ts) THEN Zero
    ELSE IF p > Len(pats) THEN NumberScan(pats, ts, t + 1, 1)
    ELSE LET m == Search(pats[p].re, ts[t])
             f == IF m # <<>> THEN ToFloat(Group(ts[t], m, pats[p].from, pats[p].to))
                  ELSE <<>>
         IN  IF f # <<>> THEN f[1] ELSE NumberScan(pats, ts, t, p + 1)

find_magnitude(ts) == NumberScan(MagnitudePatterns, ts, 1, 1)

find_depth(ts) == NumberScan(DepthPatterns, ts, 1, 1)

LocationKeywords == {"km", "al", "de", "sur", "norte", "este", "oeste"}

NoLocation == "Ubicación no especificada"

find_location(ts) ==
    LET keyed == {t \in 1..Len(ts) :
                    /\ Len(ts[t]) > 10
                    /\ LET low == LowerStr(ts[t])
                       IN  \E k \in LocationKeywords : Contains(low, k)}
        long  == {t \in 1..Len(ts) : Len(ts[t]) > 15}
        first(S) == CHOOSE t \in S : \A u \in S : t <= u
    IN  IF keyed # {} THEN ts[first(keyed)]
        ELSE IF long # {} THEN ts[first(long)]
        ELSE NoLocation

LatPattern == <<Plus(Digit), Lit("."), Plus(Digit), Opt({"°"}), Star(Whitespace),
                Opt({"N", "S", "n", "s"})>>

LonPattern == <<Plus(Digit), Lit("."), Plus(Digit), Opt({"°"}), Star(Whitespace),
                Opt({"W", "E", "w", "e"})>>

parse_coordinates_from_text(text) ==
    LET lat_match == Search(LatPattern, text)
        lon_match == Search(LonPattern, text)
        lat == IF lat_match # <<>> THEN ToFloat(Group(text, lat_match, 1, 3))[1] ELSE Zero
        lon == IF lon_match # <<>> THEN ToFloat(Group(text, lon_match, 1, 3))[1] ELSE Zero
        up  == UpperStr(text)
    IN  << IF Contains(up, "S") THEN Neg(lat) ELSE lat,
           IF Contains(up, "W") \/ Contains(up, "O") THEN Neg(lon) ELSE lon >>

SpaceRun == Plus(Whitespace)

\* parse_timestamp's formats, in its order, as strptime compiles them, each
\* with the atoms of its fields (s = 0: the format has no seconds)
TimeFormats == <<
    [re |-> <<D12, Lit("/"), D12, Lit("/"), D4, SpaceRun, D12, Lit(":"), D12, Lit(":"), D12>>,
     d |-> 1, mo |-> 3, y |-> 5, h |-> 7, mi |-> 9, s |-> 11],
    [re |-> <<D4, Lit("-"), D12, Lit("-"), D12, SpaceRun, D12, Lit(":"), D12, Lit(":"), D12>>,
     d |-> 5, mo |-> 3, y |-> 1, h |-> 7, mi |-> 9, s |-> 11],
    [re |-> <<D12, Lit("-"), D12, Lit("-"), D4, SpaceRun, D12, Lit(":"), D12, Lit(":"), D12>>,
     d |-> 1, mo |-> 3, y |-> 5, h |-> 7, mi |-> 9, s |-> 11],
    [re |-> <<D12, Lit("/"), D12, Lit("/"), D4, SpaceRun, D12, Lit(":"), D12>>,
     d |-> 1, mo |-> 3, y |-> 5, h |-> 7, mi |-> 9, s |-> 0] >>

DaysIn(mo, y) ==
    IF mo \in {4, 6, 9, 11} THEN 30
    ELSE IF mo = 2 THEN (IF y % 4 = 0 /\ (y % 100 # 0 \/ y % 400 = 0) THEN 29 ELSE 28)
    ELSE 31

\* datetime.strptime(text, fmt).isoformat(): <<iso>>, or <<>> on ValueError
Strptime(text, fmt) ==
    LET m == FullMatch(fmt.re, text)
        field(a) == NatOf(Group(text, m, a, a))
    IN  IF m = <<>> THEN <<>>
        ELSE LET d  == field(fmt.d)
                 mo == field(fmt.mo)
                 y  == field(fmt.y)
                 h  == field(fmt.h)
                 mi == field(fmt.mi)
                 s  == IF fmt.s = 0 THEN 0 ELSE field(fmt.s)
             IN  IF /\ y >= 1 /\ mo \in 1..12 /\ d >= 1 /\ d <= DaysIn(mo, y)
                    /\ h <= 23 /\ mi <= 59 /\ s <= 59
                 THEN << ZeroPad(NatStr(y), 4) \o "-" \o ZeroPad(NatStr(mo), 2) \o "-"
                         \o ZeroPad(NatStr(d), 2) \o "T" \o ZeroPad(NatStr(h), 2) \o ":"
                         \o ZeroPad(NatStr(mi), 2) \o ":" \o ZeroPad(NatStr(s), 2) >>
                 ELSE <<>>

RECURSIVE TimestampScan(_, _, _)
TimestampScan(text, f, now) ==
    IF f > Len(TimeFormats) THEN UtcNowIso(now)
    ELSE LET iso == Strptime(text, TimeFormats[f])
         IN  IF iso # <<>> THEN iso[1] ELSE TimestampScan(text, f + 1, now)

parse_timestamp(text, now) == TimestampScan(text, 1, now)

\* hashlib.md5(s).hexdigest(): injective on the strings of the model
md5(s) == "md5(" \o s \o ")"

generate_id(fecha_hora, magnitud, ubicacion) ==
    md5(fecha_hora \o "_" \o FloatStr(magnitud) \o "_" \o ubicacion)

\* parse_earthquake_row(cells) run when the clock shows now: <<record>>, or
\* <<>> for None
parse_earthquake_row(cells, now) ==
    LET fecha_hora  == find_datetime(cells, now)
        magnitud    == find_magnitude(cells)
        profundidad == find_depth(cells)
        ubicacion   == find_location(cells)
        coords      == parse_coordinates_from_text(ubicacion)
    IN  IF ~(fecha_hora # "" /\ magnitud.m > 0) THEN <<>>
        ELSE << [id             |-> generate_id(fecha_hora, magnitud, ubicacion),
                 timestamp      |-> parse_timestamp(fecha_hora, now),
                 fecha_hora     |-> fecha_hora,
                 magnitud       |-> magnitud,
                 profundidad_km |-> profundidad,
                 ubicacion      |-> ubicacion,
                 latitud        |-> coords[1],
                 longitud       |-> coords[2],
                 scraped_at     |-> UtcNowIso(now),
                 raw_data       |-> cells] >>

---------------------------------------------------------------------------
(* EarthquakeScraper: the strategy chain, and the write handler.  An       *)
(* invocation is the record inv[p]: its place pc, the loop indices ti      *)
(* (table), rj (row) and k (item to put), the lists of the code, and as    *)
(* history the strategies called (calls) and the put_item calls (putLog).  *)

MinCells == 3

TableCap == 10

MaxSismos == 10

InitInv ==
    [pc |-> "start", fetched |-> FALSE, raised |-> FALSE, ti |-> 0, rj |-> 0,
     teq |-> <<>>, earthquakes |-> <<>>, calls |-> <<>>, result |-> <<>>,
     k |-> 0, saved_count |-> 0, failures |-> 0, putLog |-> <<>>,
     response |-> <<>>]

\* a variant that lets the error through to the handler
ScrapeExceptReraise(st) == [st EXCEPT !.pc = "save", !.raised = TRUE]

\* scrape_earthquakes' except clause: the error is printed and [] returned
ScrapeExcept(st) ==
    [st EXCEPT !.pc = "save", !.earthquakes = <<>>, !.result = <<>>, !.k = 1]

\* extract_from_text and extract_from_divs print what they detect and
\* return the empty list they started with
extract_from_text(d) == <<>>

extract_from_divs(d) == <<>>

\* a variant that runs the fallback strategies whatever was found
NeedFallbackAlways(eqs) == TRUE

\* "if not earthquakes:" before each fallback strategy
NeedFallback(eqs) == eqs = <<>>

\* a variant that returns the whole list
TruncateNone(eqs) == eqs

\* "return earthquakes[:10]"
Truncate(eqs) == SubSeq(eqs, 1, Min(Len(eqs), MaxSismos))

\* extract_from_table's "if len(earthquakes) >= 10: break"
TableFull(teq) == Len(teq) >= TableCap

\* a variant that leaves the loop after the first table that gave records
NextTableFirstWins(ti, teq, n) == IF teq # <<>> THEN n + 1 ELSE ti + 1

\* the table loop of extract_earthquakes_from_html goes on to the next
\* table whatever the table just scanned gave
NextTable(ti, teq, n) == ti + 1

\* a variant that leaves the loop at the first failure
NextPutIndexAbort(k, ok, n) == IF ok THEN k + 1 ELSE n + 1

\* the put loop goes on to the next item after a success and, through
\* "continue", after a failure
NextPutIndex(k, ok, n) == k + 1

\* table.put_item(Item=item): the item replaces the one of the same id
Put(s, item) == {r \in s : r.id # item.id} \cup {item}

\* requests.get, raise_for_status, BeautifulSoup, the debug file: any
\* exception there is caught by scrape_earthquakes
Fetch(p) ==
    /\ inv[p].pc = "start"
    /\ \E ok \in BOOLEAN :
         inv' = [inv EXCEPT ![p] =
                    IF ok THEN [@ EXCEPT !.pc = "tables", !.fetched = TRUE, !.ti = 1]
                    ELSE ScrapeExcept(@)]
    /\ UNCHANGED <<clock, doc, store, texts, parsed, items, limit, resp>>

\* extract_from_table called on the next table; row 0 is skipped
BeginTable(p) ==
    /\ inv[p].pc = "tables"
    /\ inv[p].ti <= Len(doc)
    /\ inv' = [inv EXCEPT ![p] = [@ EXCEPT !.pc = "rows", !.teq = <<>>, !.rj = 2,
                                             !.calls = Append(@, "table")]]
    /\ UNCHANGED <<clock, doc, store, texts, parsed, items, limit, resp>>

\* one turn of extract_from_table's row loop
ProcessRow(p) ==
    /\ inv[p].pc = "rows"
    /\ inv[p].rj <= Len(doc[inv[p].ti])
    /\ LET rows  == doc[inv[p].ti]
           cells == rows[inv[p].rj]
           found == IF Len(cells) >= MinCells THEN parse_earthquake_row(cells, clock)
                    ELSE <<>>
           teq   == inv[p].teq \o found
       IN  inv' = [inv EXCEPT ![p] =
                      [@ EXCEPT !.teq = teq,
                                !.rj = IF TableFull(teq) THEN Len(rows) + 1 ELSE @ + 1]]
    /\ UNCHANGED <<clock, doc, store, texts, parsed, items, limit, resp>>

\* extract_from_table returns; its records are added to earthquakes
EndTable(p) ==
    /\ inv[p].pc = "rows"
    /\ inv[p].rj > Len(doc[inv[p].ti])
    /\ inv' = [inv EXCEPT ![p] =
                  [@ EXCEPT !.pc = "tables",
                            !.earthquakes = @ \o inv[p].teq,
                            !.ti = NextTable(@, inv[p].teq, Len(doc))]]
    /\ UNCHANGED <<clock, doc, store, texts, parsed, items, limit, resp>>

\* after the last table: the free-text strategy, when nothing was found
TextStrategy(p) ==
    /\ inv[p].pc = "tables"
    /\ inv[p].ti > Len(doc)
    /\ inv' = [inv EXCEPT ![p] =
                  IF NeedFallback(@.earthquakes)
                  THEN [@ EXCEPT !.pc = "divs", !.calls = Append(@, "text"),
                                 !.earthquakes = @ \o extract_from_text(doc)]
                  ELSE [@ EXCEPT !.pc = "divs"]]
    /\ UNCHANGED <<clock, doc, store, texts, parsed, items, limit, resp>>

\* the container strategy, when still nothing was found, and the return
\* of the first ten records to the handler
DivStrategy(p) ==
    /\ inv[p].pc = "divs"
    /\ LET st  == inv[p]
           eqs == IF NeedFallback(st.earthquakes)
                  THEN st.earthquakes \o extract_from_divs(doc)
                  ELSE st.earthquakes
       IN  inv' = [inv EXCEPT ![p] =
                      [@ EXCEPT !.pc = "save", !.earthquakes = eqs,
                                !.calls = IF NeedFallback(st.earthquakes)
                                          THEN Append(@, "divs") ELSE @,
                                !.result = Truncate(eqs), !.k = 1]]
    /\ UNCHANGED <<clock, doc, store, texts, parsed, items, limit, resp>>

\* one turn of the handler's put loop; put_item may raise
PutItem(p) ==
    /\ inv[p].pc = "save"
    /\ ~inv[p].raised
    /\ inv[p].k <= Len(inv[p].result)
    /\ \E ok \in BOOLEAN :
         LET item == inv[p].result[inv[p].k]
         IN  /\ ~ok => inv[p].failures < MaxFailures
             /\ store' = IF ok THEN Put(store, item) ELSE store
             /\ inv' = [inv EXCEPT ![p] =
                          [@ EXCEPT !.saved_count = IF ok THEN @ + 1 ELSE @,
                                    !.failures = IF ok THEN @ ELSE @ + 1,
                                    !.putLog = Append(@, [item |-> item, ok |-> ok]),
                                    !.k = NextPutIndex(@, ok, Len(inv[p].result))]]
    /\ UNCHANGED <<clock, doc, texts, parsed, items, limit, resp>>

\* the handler's response: 200 with the counts, 500 when an exception
\* reached its own except clause
Respond(p) ==
    /\ inv[p].pc = "save"
    /\ inv[p].raised \/ inv[p].k > Len(inv[p].result)
    /\ inv' = [inv EXCEPT ![p] =
                  [@ EXCEPT !.pc = "done",
                            !.response =
                                IF inv[p].raised THEN <<[statusCode |-> 500]>>
                                ELSE <<[statusCode |-> 200,
                                        sismos_procesados |-> Len(inv[p].result),
                                        sismos_guardados |-> inv[p].saved_count]>>]]
    /\ UNCHANGED <<clock, doc, store, texts, parsed, items, limit, resp>>

Tick ==
    /\ clock < MaxClock
    /\ clock' = clock + 1
    /\ UNCHANGED <<doc, store, inv, texts, parsed, items, limit, resp>>

---------------------------------------------------------------------------
(* Pages *)

Header == <<"Fecha y hora", "Magnitud", "Profundidad", "Referencia">>

\* a complete row; i tells the rows apart by their seconds
ValidRow(i) ==
    <<"15/03/2024 10:30:" \o ZeroPad(NatStr(i), 2), "M 4.5", "60 km", "12.5°S, 76.8°W">>

\* a row without a magnitude
MalformedRow == <<"15/03/2024 10:31:00", "", "60 km", "Lima">>

\* a row of two cells
ShortRow == <<"Reporte", "M 4.5">>

\* a row with a magnitude and no date
NoDateRow == <<"M 5.2", "35 km", "20 km al SO de Lima">>

PageTable(start, n, nodate) ==
    <<Header, ShortRow, MalformedRow>>
    \o (IF nodate THEN <<NoDateRow>> ELSE <<>>)
    \o [i \in 1..n |-> ValidRow(start + i)]

\* the pages of one invocation: no table, or two tables that hold up to
\* MaxRows complete rows, all in the first or shared between the two
RunDocs ==
    {<<>>} \cup UNION {{<<PageTable(0, a, nd), PageTable(a, b, FALSE)>> :
                            b \in {0, MaxRows - a}, nd \in BOOLEAN} :
                        a \in 0..MaxRows}

\* the pages of two invocations: one table
TwoDocs == {<<PageTable(0, a, nd)>> : a \in 0..MaxRowsTwo, nd \in BOOLEAN}

\* the cell texts the parsers are tried on
CellTexts ==
    {"15/03/2024 10:30:00", "M 4.5", "60 km", "12.5°S, 76.8°W", "Reporte",
     "80.5 km", "", "20 km al SO de Lima"}

ParseInputs == [1..MinCells -> CellTexts]

---------------------------------------------------------------------------
(* The read handler, handlers/get_earthquakes.py *)

DefaultLimit == 10

\* the characters of the model that str.isdigit accepts: the decimal digits
\* and the superscript two, which int() rejects
IsDigitChars == Digit \cup {"²"}

\* limit.isdigit()
isdigit(s) == s # "" /\ \A i \in 1..Len(s) : Ch(s, i) \in IsDigitChars

\* int(s) for s that isdigit accepts: <<n>>, or <<>> on ValueError
int(s) == IF \A i \in 1..Len(s) : Ch(s, i) \in Digit THEN <<NatOf(s)>> ELSE <<>>

\* the code points of the characters of a timestamp, in their order
CharOrder == "-.0123456789:T"

\* a < b on Python strings
RECURSIVE StrLess(_, _)
StrLess(a, b) ==
    IF b = "" THEN FALSE
    ELSE IF a = "" THEN TRUE
    ELSE IF Ch(a, 1) = Ch(b, 1) THEN StrLess(SubSeq(a, 2, Len(a)), SubSeq(b, 2, Len(b)))
    ELSE IndexIn(CharOrder, Ch(a, 1)) < IndexIn(CharOrder, Ch(b, 1))

\* where list.sort(key=timestamp, reverse=True), which is stable, puts x
\* among the items already sorted: after those whose key is not below x's
SortedInsert(sorted, x) ==
    LET n == Cardinality({i \in 1..Len(sorted) : ~StrLess(sorted[i].timestamp, x.timestamp)})
    IN  SubSeq(sorted, 1, n) \o <<x>> \o SubSeq(sorted, n + 1, Len(sorted))

RECURSIVE SortByTimestamp(_)
SortByTimestamp(xs) ==
    IF xs = <<>> THEN <<>>
    ELSE SortedInsert(SortByTimestamp(SubSeq(xs, 1, Len(xs) - 1)), xs[Len(xs)])

\* lambda_handler(event, context) of the read handler, on the scan's items
\* and the 'limit' parameter of the event
get_earthquakes(scanned, lim) ==
    LET sorted == SortByTimestamp(scanned)
        digits == lim # <<>> /\ lim[1] # "" /\ isdigit(lim[1])
        n      == IF digits THEN int(lim[1]) ELSE <<DefaultLimit>>
    IN  IF n = <<>> THEN [statusCode |-> 500]
        ELSE LET out == SubSeq(sorted, 1, Min(n[1], Len(sorted)))
             IN  [statusCode |-> 200,
                  sismos     |-> out,
                  total      |-> Len(out),
                  timestamp  |-> IF out # <<>> THEN <<out[1].timestamp>> ELSE <<>>]

---------------------------------------------------------------------------
(* Specifications *)

Idle ==
    /\ texts = <<>>
    /\ parsed = [op |-> "none"]
    /\ items = <<>>
    /\ limit = <<>>
    /\ resp = <<>>

\* one invocation of the write handler over any page
InitRun ==
    /\ clock \in 0..MaxClock
    /\ doc \in RunDocs
    /\ store = {}
    /\ inv = [p \in {1} |-> InitInv]
    /\ Idle

NextRun ==
    \/ \E p \in DOMAIN inv : Fetch(p)
    \/ \E p \in DOMAIN inv : BeginTable(p)
    \/ \E p \in DOMAIN inv : ProcessRow(p)
    \/ \E p \in DOMAIN inv : EndTable(p)
    \/ \E p \in DOMAIN inv : TextStrategy(p)
    \/ \E p \in DOMAIN inv : DivStrategy(p)
    \/ \E p \in DOMAIN inv : PutItem(p)
    \/ \E p \in DOMAIN inv : Respond(p)

SpecRun == InitRun /\ [][NextRun]_vars

\* two invocations of the write handler over the same page, their steps
\* interleaved, while the clock advances
InitTwo ==
    /\ clock = 0
    /\ doc \in TwoDocs
    /\ store = {}
    /\ inv = [p \in {1, 2} |-> InitInv]
    /\ Idle

NextTwo == Tick \/ NextRun

SpecTwo == InitTwo /\ [][NextTwo]_vars

\* the parsers, each on a row of cell texts
CallParseRow ==
    /\ parsed.op = "none"
    /\ parsed' = [op |-> "row", out |-> parse_earthquake_row(texts, clock)]
    /\ UNCHANGED <<clock, doc, store, inv, texts, items, limit, resp>>

CallFindMagnitude ==
    /\ parsed.op = "none"
    /\ parsed' = [op |-> "magnitude", out |-> find_magnitude(texts)]
    /\ UNCHANGED <<clock, doc, store, inv, texts, items, limit, resp>>

CallParseCoordinates ==
    /\ parsed.op = "none"
    /\ parsed' = [op |-> "coordinates", out |-> parse_coordinates_from_text(texts[1])]
    /\ UNCHANGED <<clock, doc, store, inv, texts, items, limit, resp>>

InitParse ==
    /\ clock \in 0..MaxClock
    /\ texts \in ParseInputs
    /\ parsed = [op |-> "none"]
    /\ doc = <<>>
    /\ store = {}
    /\ inv = <<>>
    /\ items = <<>>
    /\ limit = <<>>
    /\ resp = <<>>

NextParse == CallParseRow \/ CallFindMagnitude \/ CallParseCoordinates

SpecParse == InitParse /\ [][NextParse]_vars

\* the timestamps of stored items: parsed ones, and one of the clock
Stamps ==
    <<"2023-12-31T23:59:59", "2024-03-15T10:30:00", "2024-03-15T10:30:07",
      "2026-01-01T00:00:01.500000">>

StoredItem(i) == [id |-> md5(NatStr(i)), timestamp |-> Stamps[(i % Len(Stamps)) + 1]]

\* what the scan may return: up to MaxScan items in some order
ScanResults ==
    {[j \in 1..n |-> StoredItem(first + j * step)] :
        n \in 0..MaxScan, first \in 0..3, step \in 1..3}

\* the 'limit' parameter: absent, or one of these strings
Limits == {<<>>, <<"">>, <<"abc">>, <<"0">>, <<"2">>, <<"007">>, <<"11">>, <<"²">>}

Get ==
    /\ resp = <<>>
    /\ resp' = <<get_earthquakes(items, limit)>>
    /\ UNCHANGED <<clock, doc, store, inv, texts, parsed, items, limit>>

InitRead ==
    /\ items \in ScanResults
    /\ limit \in Limits
    /\ resp = <<>>
    /\ clock = 0
    /\ doc = <<>>
    /\ store = {}
    /\ inv = <<>>
    /\ texts = <<>>
    /\ parsed = [op |-> "none"]

NextRead == Get

SpecRead == InitRead /\ [][NextRead]_vars

---------------------------------------------------------------------------
(* Reference definitions of the properties *)

RECURSIVE Flatten(_)
Flatten(ss) == IF ss = <<>> THEN <<>> ELSE Head(ss) \o Flatten(Tail(ss))

FirstN(xs, n) == SubSeq(xs, 1, Min(n, Len(xs)))

\* the record of a data row, <<>> when the row gives none
RowRecord(cells, now) ==
    IF Len(cells) >= MinCells THEN parse_earthquake_row(cells, now) ELSE <<>>

\* the records of all the data rows of a table, in row order
AllTableRecords(t, now) == Flatten([j \in 1..(Len(t) - 1) |-> RowRecord(t[j + 1], now)])

\* the records a table contributes
TableRecords(t, now) == FirstN(AllTableRecords(t, now), TableCap)

ValidRowCount(d, now) == Len(Flatten([i \in 1..Len(d) |-> AllTableRecords(d[i], now)]))

Productive(d, now) == {i \in 1..Len(d) : TableRecords(d[i], now) # <<>>}

\* the chain has just returned to the handler of invocation p
ChainReturned(p) == inv[p].pc = "save" /\ inv[p].k = 1 /\ inv[p].fetched

Invoked(p, strategy) == \E i \in DOMAIN inv[p].calls : inv[p].calls[i] = strategy

TimesInvoked(p, strategy) ==
    Cardinality({i \in DOMAIN inv[p].calls : inv[p].calls[i] = strategy})

StrategyRank(c) == CASE c = "table" -> 1 [] c = "text" -> 2 [] c = "divs" -> 3

HasDateToken(ts) ==
    \E t \in 1..Len(ts) : \E q \in 1..Len(DatePatterns) : Search(DatePatterns[q], ts[t]) # <<>>

\* a decimal number with the hemisphere letter that follows it
CoordinatePattern ==
    <<Plus(Digit), Lit("."), Plus(Digit), Opt({"°"}), Star(Whitespace),
      Opt({"N", "S", "E", "W", "O", "n", "s", "e", "w", "o"})>>

RECURSIVE FindAll(_, _, _)
FindAll(re, s, i) ==
    LET m == SearchFrom(re, s, i)
    IN  IF m = <<>> THEN <<>> ELSE <<m>> \o FindAll(re, s, m[Len(m)])

\* the number of a match of CoordinatePattern, negated when its own letter
\* is one of west
SignedCoordinate(s, m, west) ==
    LET v == ToFloat(Group(s, m, 1, 3))[1]
    IN  IF UpperCh(Group(s, m, 6, 6)) \in west THEN Neg(v) ELSE v

\* the numbers the specific magnitude patterns (all but the bare decimal)
\* find in the texts
SpecificMagnitudes(ts) ==
    {f[1] : f \in {ToFloat(Group(ts[x[1]], Search(MagnitudePatterns[x[2]].re, ts[x[1]]),
                                  MagnitudePatterns[x[2]].from, MagnitudePatterns[x[2]].to)) :
                    x \in {y \in (1..Len(ts)) \X (1..3) :
                             Search(MagnitudePatterns[y[2]].re, ts[y[1]]) # <<>>}} \ {<<>>}}

Count(xs, x) == Cardinality({i \in 1..Len(xs) : xs[i] = x})

\* the limit the read handler is to apply: the value of a string of
\* decimal digits, 10 otherwise
WantedLimit(lim) ==
    IF lim # <<>> /\ lim[1] # "" /\ (\A i \in 1..Len(lim[1]) : Ch(lim[1], i) \in Digit)
    THEN NatOf(lim[1]) ELSE 10

---------------------------------------------------------------------------
(* Properties *)

\* C1: a row gives a record only if one of its cells holds a date/time
\* token matching a supported pattern and a positive magnitude was found;
\* every other row, a row with a magnitude and no date among them, is
\* discarded.
C1_RecordOnlyWithDateAndMagnitude ==
    (parsed.op = "row" /\ parsed.out # <<>>)
        => (HasDateToken(texts) /\ parsed.out[1].magnitud.m > 0)

\* C2: the id does not depend on the time of scraping: two invocations over
\* the same page give every row the same id, and once both have finished
\* with every put successful the store holds one record per distinct row
\* extracted.
C2_IdIndependentOfScrapeTime ==
    (\A p \in DOMAIN inv : inv[p].pc = "done")
        => LET extracted == UNION {{inv[p].result[i] : i \in 1..Len(inv[p].result)} :
                                      p \in DOMAIN inv}
               rows == {r.raw_data : r \in extracted}
               allSaved == \A p \in DOMAIN inv : inv[p].failures = 0
           IN  /\ \A r1 \in extracted : \A r2 \in extracted :
                    r1.raw_data = r2.raw_data => r1.id = r2.id
               /\ allSaved => Cardinality(store) = Cardinality(rows)

\* C3: when the fetch fails the handler raises nothing, no strategy runs and
\* nothing is put, and the response is a 200 with processed 0 and saved 0.
C3_FetchFailureIsEmptySuccess ==
    \A p \in DOMAIN inv :
        (inv[p].pc # "start" /\ ~inv[p].fetched)
            => /\ ~inv[p].raised
               /\ inv[p].calls = <<>>
               /\ inv[p].putLog = <<>>
               /\ inv[p].pc = "done"
                    => /\ inv[p].response[1].statusCode = 200
                       /\ inv[p].response[1].sismos_procesados = 0
                       /\ inv[p].response[1].sismos_guardados = 0

C3_Witness ==
    \E p \in DOMAIN inv :
        inv[p].pc = "done" /\ ~inv[p].fetched /\ inv[p].response[1].statusCode = 200

\* C4: the handler puts the extracted records one by one in their order,
\* goes on after a failed put, and answers with processed = the number of
\* extracted records and saved = the number of puts that succeeded.
C4_OneUpsertPerRecord ==
    \A p \in DOMAIN inv :
        LET st == inv[p]
            succeeded == {i \in 1..Len(st.putLog) : st.putLog[i].ok}
        IN  /\ Len(st.putLog) <= Len(st.result)
            /\ \A i \in 1..Len(st.putLog) : st.putLog[i].item = st.result[i]
            /\ st.saved_count = Cardinality(succeeded)
            /\ \A i \in succeeded : \E r \in store : r.id = st.putLog[i].item.id
            /\ st.pc = "done"
                 => /\ Len(st.putLog) = Len(st.result)
                    /\ st.response[1].statusCode = 200
                    /\ st.response[1].sismos_procesados = Len(st.result)
                    /\ st.response[1].sismos_guardados = Cardinality(succeeded)
                    /\ st.response[1].sismos_guardados <= st.response[1].sismos_procesados

C4_Witness ==
    \E p \in DOMAIN inv :
        /\ inv[p].pc = "done"
        /\ inv[p].response[1].sismos_procesados = 2
        /\ inv[p].response[1].sismos_guardados = 1
        /\ ~inv[p].putLog[1].ok
        /\ inv[p].putLog[2].ok

\* C5: the strategies run in the order tabular, free-text, container; the
\* free-text strategy runs only after every table was scanned and gave
\* nothing, the container strategy only after the free-text strategy gave
\* nothing too, so that neither runs once the tabular strategy has a record.
C5_StrategyChainOrder ==
    \A p \in DOMAIN inv :
        LET c == inv[p].calls
        IN  /\ \A i \in DOMAIN c : \A j \in DOMAIN c :
                 i < j => StrategyRank(c[i]) <= StrategyRank(c[j])
            /\ TimesInvoked(p, "text") <= 1
            /\ TimesInvoked(p, "divs") <= 1
            /\ Invoked(p, "text")
                 => inv[p].earthquakes = <<>> /\ TimesInvoked(p, "table") = Len(doc)
            /\ Invoked(p, "divs") => Invoked(p, "text") /\ inv[p].earthquakes = <<>>
            /\ (inv[p].pc = "done" /\ inv[p].fetched /\ inv[p].result = <<>>)
                 => Invoked(p, "text") /\ Invoked(p, "divs")

C5_Witness ==
    \E p \in DOMAIN inv :
        /\ inv[p].pc = "done"
        /\ inv[p].result # <<>>
        /\ TimesInvoked(p, "table") = Len(doc)
        /\ ~Invoked(p, "text")
        /\ ~Invoked(p, "divs")

\* C6: the chain returns at most 10 records and at most 10 puts are made; a
\* page whose tables hold 10 valid rows or more, 15 among them, gives
\* exactly 10 records.
C6_AtMostTenRecords ==
    \A p \in DOMAIN inv :
        /\ Len(inv[p].result) <= 10
        /\ Len(inv[p].putLog) <= 10
        /\ (ChainReturned(p) /\ ValidRowCount(doc, clock) >= 10)
             => Len(inv[p].result) = 10

C6_Witness ==
    \E p \in DOMAIN inv :
        /\ ChainReturned(p)
        /\ Len(doc) = 2
        /\ Len(inv[p].result) = 10
        /\ ValidRowCount(doc, clock) = 15
        /\ Len(AllTableRecords(doc[1], clock)) = 8

\* C7: parse_coordinates returns the first decimal number of the text as
\* latitude and the second as longitude, each negated exactly when its own
\* hemisphere letter is S (latitude) or W or O (longitude).
C7_LatitudeAndLongitude ==
    parsed.op = "coordinates"
        => LET found == FindAll(CoordinatePattern, texts[1], 1)
           IN  Len(found) >= 2
                 => parsed.out = <<SignedCoordinate(texts[1], found[1], {"S"}),
                                   SignedCoordinate(texts[1], found[2], {"W", "O"})>>

\* C8: when some text matches a specific magnitude pattern, find_magnitude
\* returns the number of such a match, never a bare decimal of another
\* text, whatever the order of the texts.
C8_SpecificPatternPreferred ==
    (parsed.op = "magnitude" /\ SpecificMagnitudes(texts) # {})
        => parsed.out \in SpecificMagnitudes(texts)

\* C9: the read handler answers 200 with, in sismos, the first N items in
\* descending timestamp order, N the value of limit when it is a string of
\* digits and 10 otherwise; total is their number and timestamp that of
\* the first, or null.
C9_ReadReturnsMostRecent ==
    resp # <<>>
        => LET r == resp[1]
               n == WantedLimit(limit)
           IN  /\ r.statusCode = 200
               /\ Len(r.sismos) = Min(n, Len(items))
               /\ \A i \in 1..(Len(r.sismos) - 1) :
                    ~StrLess(r.sismos[i].timestamp, r.sismos[i + 1].timestamp)
               /\ \A i \in 1..Len(r.sismos) :
                    Count(r.sismos, r.sismos[i]) <= Count(items, r.sismos[i])
               /\ \A i \in 1..Len(items) :
                    (r.sismos # <<>> /\ StrLess(r.sismos[Len(r.sismos)].timestamp,
                                                items[i].timestamp))
                        => Count(r.sismos, items[i]) = Count(items, items[i])
               /\ r.total = Len(r.sismos)
               /\ r.timestamp = IF r.sismos = <<>> THEN <<>>
                                 ELSE <<r.sismos[1].timestamp>>

\* C10, as claimed: once a table has given a record no later table is
\* scanned, so the result is what the first productive table gives.
C10_FirstProductiveTableWins ==
    \A p \in DOMAIN inv :
        ChainReturned(p)
            => LET prod == Productive(doc, clock)
               IN  inv[p].result =
                       IF prod = {} THEN <<>>
                       ELSE TableRecords(doc[CHOOSE i \in prod : \A j \in prod : i <= j],
                                         clock)

\* C10, amended: every table is scanned, in document order, whatever the
\* earlier tables gave; each contributes up to 10 records, and the result
\* is the first 10 records of the contributions put one after the other.
C10_EveryTableContributes ==
    \A p \in DOMAIN inv :
        /\ inv[p].pc \notin {"start", "tables", "rows"} /\ inv[p].fetched
             => TimesInvoked(p, "table") = Len(doc)
        /\ ChainReturned(p)
             => inv[p].result =
                    FirstN(Flatten([i \in 1..Len(doc) |-> TableRecords(doc[i], clock)]),
                           MaxSismos)

C10_Witness ==
    \E p \in DOMAIN inv :
        /\ ChainReturned(p)
        /\ Len(doc) = 2
        /\ Len(inv[p].result) > Len(TableRecords(doc[1], clock))
        /\ TableRecords(doc[1], clock) # <<>>

====
